---- MODULE Spec2Model ----
(***************************************************************************)
(* Model of backend/app.py: the /api/feed handler (get_feed), the summary  *)
(* resolution of each entry (extract_text_from_link) and the bounded       *)
(* retrying fetcher (http_get).                                            *)
(*                                                                         *)
(* Text values (summaries, page text) are sequences of one-character       *)
(* strings, so that len(), slicing and prefixes are computed.  Titles,     *)
(* links, dates and error names are never measured and are plain strings.  *)
(* Durations are in tenths of a second.                                    *)
(***************************************************************************)
EXTENDS Integers, Sequences, FiniteSets, TLC

(***************************************************************************)
(* Bounds of the model.                                                    *)
(***************************************************************************)
MaxEntries == 2       \* longest feed the parser collaborator returns
MaxArticlesCfg == 2   \* largest configured MAX_ARTICLES
MaxCharCfg == 2       \* largest configured EXTRACT_/SUMMARY_CHAR_LIMIT (from 1)
MaxNodes == 2         \* most text nodes of a fetched page

(***************************************************************************)
(* Program constants.                                                      *)
(***************************************************************************)
retries == 2          \* http_get(url, retries=2, ...)
backoff == 6          \* http_get(..., backoff=0.6), in tenths of a second

Reqs == {1, 2}        \* request handlers; Spec runs the first one only

None == <<"None">>    \* Python's None where a text is expected
NoErr == "None"       \* last_err = None
NoRes == [ctype |-> <<"NoResponse">>]

Fallback ==
  <<"N","o"," ","s","u","m","m","a","r","y"," ",
    "a","v","a","i","l","a","b","l","e",".">>

Min(a, b) == IF a <= b THEN a ELSE b
Max(a, b) == IF a >= b THEN a ELSE b

RECURSIVE Pow2(_)
Pow2(n) == IF n <= 0 THEN 1 ELSE 2 * Pow2(n - 1)

(***************************************************************************)
(* Python helpers.                                                         *)
(***************************************************************************)
\* s[:n]
PySlice(s, n) ==
  IF n >= 0 THEN SubSeq(s, 1, Min(n, Len(s)))
  ELSE SubSeq(s, 1, Max(0, Len(s) + n))

\* d.get(k, default)
Get(d, k, default) == IF k \in DOMAIN d THEN d[k] ELSE default

\* str.strip(): leading and trailing whitespace removed
RECURSIVE LStrip(_)
LStrip(s) == IF s # <<>> /\ Head(s) = " " THEN LStrip(Tail(s)) ELSE s

RECURSIVE RStrip(_)
RStrip(s) ==
  IF s # <<>> /\ s[Len(s)] = " " THEN RStrip(SubSeq(s, 1, Len(s) - 1)) ELSE s

Strip(s) == RStrip(LStrip(s))

(***************************************************************************)
(* Inputs.                                                                 *)
(***************************************************************************)
\* The url query argument: a sequence of tokens, " " being whitespace.  An
\* absent argument reads as the default "", the empty sequence.
UrlArgs ==
  { <<>>, <<" ", " ">>,
    <<" ", "http://h/feed", " ">>, <<"https://h/feed">>,
    <<"ftp://h/feed">>, <<"http:///feed">>, <<"h/feed">> }

\* urlparse(rss_url) on the addresses above
urlparse(u) ==
  CASE u = <<"http://h/feed">>  -> [scheme |-> "http",  netloc |-> "h"]
    [] u = <<"https://h/feed">> -> [scheme |-> "https", netloc |-> "h"]
    [] u = <<"ftp://h/feed">>   -> [scheme |-> "ftp",   netloc |-> "h"]
    [] u = <<"http:///feed">>   -> [scheme |-> "http",  netloc |-> ""]
    [] OTHER                    -> [scheme |-> "",      netloc |-> ""]

\* Feed entries: dictionaries whose keys may be absent.  One entry for each
\* way the loop body can go: both inline texts and a link; a description
\* only, the other values empty; nothing inline but a link; a summary only,
\* the link absent; no key at all.
Entries ==
  { [title |-> "A", link |-> "u", summary |-> <<"a", "b", "c">>,
     description |-> <<"d">>, published |-> "p", updated |-> "q"],
    [title |-> "B", link |-> "", summary |-> <<>>,
     description |-> <<"d">>, published |-> "", updated |-> "q"],
    [title |-> "C", link |-> "u", summary |-> <<>>,
     description |-> <<>>, published |-> "p"],
    [summary |-> <<"a", "b", "c">>, updated |-> "q"],
    [k \in {} |-> ""] }

Feeds == UNION { [1..n -> Entries] : n \in 0..MaxEntries }

\* Declared Content-Type of a response, as tokens; the header missing reads
\* as the default "", the empty sequence.
CTypes == { <<>>, <<"application/json">>, <<"text/html", "; charset=utf-8">> }

\* Transport errors of one GET attempt.
Errs == {"Timeout", "ConnectionError"}

\* A fetched page: text nodes in document order, each inside an element.
Nodes ==
  [tag : {"p"}, s : { <<" ">>, <<"a">>, <<" ", "b", "c">> }]
    \cup [tag : {"script", "style", "noscript"}, s : { <<"x">> }]
Pages == UNION { [1..n -> Nodes] : n \in 0..MaxNodes }

(***************************************************************************)
(* State.                                                                  *)
(***************************************************************************)
VARIABLES
  MAX_ARTICLES, EXTRACT_CHAR_LIMIT, SUMMARY_CHAR_LIMIT,  \* settings
  pc,         \* where each request handler stands
  rss_url,    \* get_feed: the url argument, stripped once validated
  parses,     \* number of feedparser.parse calls of the request
  feed,       \* get_feed: feed.entries
  idx,        \* get_feed: how many of feed.entries[:MAX_ARTICLES] the loop took
  link,       \* get_feed: link of the current entry
  summary,    \* get_feed: summary of the current entry
  text,       \* get_feed: what extract_text_from_link returned
  articles,   \* get_feed: the result list
  gets,       \* the requests.get calls made for the current entry
  response,   \* the HTTP response of the request
  i,          \* http_get: attempt index
  last_err,   \* http_get: last_err
  errs,       \* http_get: the error of each failed attempt of this call
  sleeps,     \* http_get: the time.sleep durations of this call
  res,        \* extract_text_from_link: the response http_get returned
  flat,       \* extract_text_from_link: the joined text before the cap
  exc,        \* the exception in flight, if any
  calls,      \* the calls of http_get made for the current entry
  total       \* the requests.get calls made for the request

cfg == <<MAX_ARTICLES, EXTRACT_CHAR_LIMIT, SUMMARY_CHAR_LIMIT>>
frame == <<link, summary, text>>
http == <<i, last_err, errs, sleeps>>
extr == <<res, flat, exc>>
count == <<calls, total>>
vars ==
  <<cfg, pc, rss_url, parses, feed, idx, frame, articles, gets, response,
    http, extr, count>>

NoResponse == [status |-> 0, error |-> ""]

Init ==
  /\ MAX_ARTICLES \in 0..MaxArticlesCfg
  /\ EXTRACT_CHAR_LIMIT \in 1..MaxCharCfg
  /\ SUMMARY_CHAR_LIMIT \in 1..MaxCharCfg
  /\ pc = [r \in Reqs |-> "idle"]
  /\ rss_url = [r \in Reqs |-> <<>>]
  /\ parses = [r \in Reqs |-> 0]
  /\ feed = [r \in Reqs |-> <<>>]
  /\ idx = [r \in Reqs |-> 0]
  /\ link = [r \in Reqs |-> ""]
  /\ summary = [r \in Reqs |-> <<>>]
  /\ text = [r \in Reqs |-> None]
  /\ articles = [r \in Reqs |-> <<>>]
  /\ gets = [r \in Reqs |-> 0]
  /\ response = [r \in Reqs |-> NoResponse]
  /\ i = [r \in Reqs |-> 0]
  /\ last_err = [r \in Reqs |-> NoErr]
  /\ errs = [r \in Reqs |-> <<>>]
  /\ sleeps = [r \in Reqs |-> <<>>]
  /\ res = [r \in Reqs |-> NoRes]
  /\ flat = [r \in Reqs |-> None]
  /\ exc = [r \in Reqs |-> NoErr]
  /\ calls = [r \in Reqs |-> 0]
  /\ total = [r \in Reqs |-> 0]

(***************************************************************************)
(* get_feed: validation of the request (lines 63-70).                      *)
(***************************************************************************)
\* UrlError with the host test joined by "and" instead of "or".
UrlError_and(arg) ==
  LET u == Strip(arg)
      parsed == urlparse(u)
  IN  IF u = <<>> THEN "Missing URL parameter"
      ELSE IF parsed.scheme \notin {"http", "https"} /\ parsed.netloc = ""
           THEN "Invalid URL"
           ELSE ""

\* The error get_feed answers a url argument with, "" when it accepts it.
UrlError(arg) ==
  LET u == Strip(arg)
      parsed == urlparse(u)
  IN  IF u = <<>> THEN "Missing URL parameter"
      ELSE IF parsed.scheme \notin {"http", "https"} \/ parsed.netloc = ""
           THEN "Invalid URL"
           ELSE ""

\* The request arrives with one of the url arguments args.
ValidateFrom(r, args) ==
  /\ pc[r] = "idle"
  /\ \E arg \in args :
       /\ rss_url' = [rss_url EXCEPT ![r] = Strip(arg)]
       /\ IF UrlError(arg) # ""
          THEN /\ response' =
                    [response EXCEPT ![r] = [status |-> 400, error |-> UrlError(arg)]]
               /\ pc' = [pc EXCEPT ![r] = "done"]
          ELSE /\ pc' = [pc EXCEPT ![r] = "parse"]
               /\ UNCHANGED response
  /\ UNCHANGED <<cfg, count, parses, feed, idx, frame, articles, gets, http,
                 extr>>

Validate(r) == ValidateFrom(r, UrlArgs)

(***************************************************************************)
(* get_feed: the feed is parsed (lines 72-76).  rss_url is not read again. *)
(***************************************************************************)
\* ParseFeed without the test for a feed with no entries.
ParseFeed_nocheck(r) ==
  /\ pc[r] = "parse"
  /\ \E f \in Feeds : feed' = [feed EXCEPT ![r] = f]
  /\ parses' = [parses EXCEPT ![r] = @ + 1]
  /\ rss_url' = [rss_url EXCEPT ![r] = <<>>]
  /\ pc' = [pc EXCEPT ![r] = "loop"]
  /\ UNCHANGED <<cfg, count, idx, frame, articles, gets, response, http, extr>>

\* feedparser.parse returns one of feeds.
ParseFeedFrom(r, feeds) ==
  /\ pc[r] = "parse"
  /\ \E f \in feeds :
       /\ feed' = [feed EXCEPT ![r] = f]
       /\ parses' = [parses EXCEPT ![r] = @ + 1]
       /\ rss_url' = [rss_url EXCEPT ![r] = <<>>]
       /\ IF f = <<>>
          THEN /\ response' =
                    [response EXCEPT ![r] =
                       [status |-> 400, error |-> "Failed to parse feed"]]
               /\ pc' = [pc EXCEPT ![r] = "done"]
          ELSE /\ pc' = [pc EXCEPT ![r] = "loop"]
               /\ UNCHANGED response
  /\ UNCHANGED <<cfg, count, idx, frame, articles, gets, http, extr>>

ParseFeed(r) == ParseFeedFrom(r, Feeds)

(***************************************************************************)
(* get_feed: the loop over feed.entries[:MAX_ARTICLES] (lines 77-94).      *)
(***************************************************************************)
\* FirstEntries off by one: feed.entries[:MAX_ARTICLES + 1].
FirstEntries_plus1(entries) == PySlice(entries, MAX_ARTICLES + 1)

\* feed.entries[:MAX_ARTICLES]
FirstEntries(entries) == PySlice(entries, MAX_ARTICLES)

\* InlineSummary with the two keys the other way round.
InlineSummary_descfirst(entry) ==
  IF Get(entry, "description", <<>>) # <<>>
  THEN Get(entry, "description", <<>>)
  ELSE Get(entry, "summary", <<>>)

\* entry.get("summary", "") or entry.get("description", "")
InlineSummary(entry) ==
  IF Get(entry, "summary", <<>>) # <<>>
  THEN Get(entry, "summary", <<>>)
  ELSE Get(entry, "description", <<>>)

\* NeedsFetch without the test of the inline summary.
NeedsFetch_anylink(s, l) == l # ""

\* (not summary) and link
NeedsFetch(s, l) == s = <<>> /\ l # ""

\* ResolveSummary testing "text is not None" instead of the truth of text.
ResolveSummary_notnone(t) ==
  IF t # None THEN PySlice(t, SUMMARY_CHAR_LIMIT) ELSE Fallback

\* ResolveSummary without the slice.
ResolveSummary_uncut(t) == IF t # None /\ t # <<>> THEN t ELSE Fallback

\* text[:SUMMARY_CHAR_LIMIT] if text else "No summary available."
ResolveSummary(t) ==
  IF t # None /\ t # <<>> THEN PySlice(t, SUMMARY_CHAR_LIMIT) ELSE Fallback

\* the dictionary appended to articles
Article(entry, l, s) ==
  [title |-> Get(entry, "title", "Untitled"),
   link |-> l,
   summary |-> s,
   published |->
     IF Get(entry, "published", "") # ""
     THEN Get(entry, "published", "")
     ELSE Get(entry, "updated", "")]

\* The for statement takes the next entry and the body reads it, lines
\* 77-82.
LoopEntry(r) ==
  /\ pc[r] = "loop"
  /\ idx[r] < Len(FirstEntries(feed[r]))
  /\ idx' = [idx EXCEPT ![r] = @ + 1]
  /\ LET entry == FirstEntries(feed[r])[idx[r] + 1]
         l == Get(entry, "link", "")
         s == InlineSummary(entry)
     IN  /\ link' = [link EXCEPT ![r] = l]
         /\ summary' = [summary EXCEPT ![r] = s]
         /\ pc' = [pc EXCEPT ![r] = IF NeedsFetch(s, l) THEN "get" ELSE "append"]
         /\ calls' = [calls EXCEPT ![r] = IF NeedsFetch(s, l) THEN 1 ELSE 0]
  /\ text' = [text EXCEPT ![r] = None]
  /\ gets' = [gets EXCEPT ![r] = 0]
  /\ i' = [i EXCEPT ![r] = 0]
  /\ last_err' = [last_err EXCEPT ![r] = NoErr]
  /\ errs' = [errs EXCEPT ![r] = <<>>]
  /\ sleeps' = [sleeps EXCEPT ![r] = <<>>]
  /\ res' = [res EXCEPT ![r] = NoRes]
  /\ flat' = [flat EXCEPT ![r] = None]
  /\ exc' = [exc EXCEPT ![r] = NoErr]
  /\ UNCHANGED <<cfg, total, rss_url, parses, feed, articles, response>>

\* AppendArticle with the append after the loop instead of inside it: only
\* the last entry gets an article.
AppendArticle_dedented(r) ==
  /\ pc[r] = "append"
  /\ articles' =
       [articles EXCEPT ![r] =
          IF idx[r] < Len(PySlice(feed[r], MAX_ARTICLES)) THEN @
          ELSE Append(@, [title |-> Get(feed[r][idx[r]], "title", "Untitled"),
                          link |-> link[r], summary |-> summary[r],
                          published |-> ""])]
  /\ pc' = [pc EXCEPT ![r] = "loop"]
  /\ UNCHANGED <<cfg, count, rss_url, parses, feed, idx, frame, gets,
                 response, http, extr>>

\* articles.append({...}), lines 86-91.
AppendArticle(r) ==
  /\ pc[r] = "append"
  /\ articles' =
       [articles EXCEPT ![r] =
          Append(@, Article(FirstEntries(feed[r])[idx[r]], link[r], summary[r]))]
  /\ pc' = [pc EXCEPT ![r] = "loop"]
  /\ UNCHANGED <<cfg, count, rss_url, parses, feed, idx, frame, gets,
                 response, http, extr>>

\* The loop is over: jsonify({"feed": ..., "articles": articles}), line 94,
\* and the locals of the call are gone.
Respond(r) ==
  /\ pc[r] = "loop"
  /\ idx[r] >= Len(FirstEntries(feed[r]))
  /\ response' = [response EXCEPT ![r] = [status |-> 200, error |-> ""]]
  /\ pc' = [pc EXCEPT ![r] = "done"]
  /\ link' = [link EXCEPT ![r] = ""]
  /\ summary' = [summary EXCEPT ![r] = <<>>]
  /\ text' = [text EXCEPT ![r] = None]
  /\ gets' = [gets EXCEPT ![r] = 0]
  /\ res' = [res EXCEPT ![r] = NoRes]
  /\ flat' = [flat EXCEPT ![r] = None]
  /\ exc' = [exc EXCEPT ![r] = NoErr]
  /\ calls' = [calls EXCEPT ![r] = 0]
  /\ UNCHANGED <<cfg, total, rss_url, parses, feed, idx, articles, http>>

(***************************************************************************)
(* http_get (lines 26-34), called by extract_text_from_link with the       *)
(* default retries and backoff.                                            *)
(***************************************************************************)
\* backoff * (2 ** i)
Delay(n) == backoff * Pow2(n)

\* MoreAttempts for a loop that never gives up (while True).
MoreAttempts_always(n) == TRUE

\* MoreAttempts for range(retries).
MoreAttempts_short(n) == n + 1 < retries

\* range(retries + 1) has an index after n
MoreAttempts(n) == n + 1 < retries + 1

\* requests.get returns a response: http_get returns it, line 30.
AttemptOk(r) ==
  /\ pc[r] = "get"
  /\ \E c \in CTypes : res' = [res EXCEPT ![r] = [ctype |-> c]]
  /\ gets' = [gets EXCEPT ![r] = @ + 1]
  /\ total' = [total EXCEPT ![r] = @ + 1]
  /\ pc' = [pc EXCEPT ![r] = "gate"]
  /\ UNCHANGED <<cfg, calls, rss_url, parses, feed, idx, frame, articles,
                 response, http, flat, exc>>

\* requests.get raises and the error is kept in a name of the module, seen
\* by every request, instead of in the local of line 27.
AttemptFail_shared(r) ==
  /\ pc[r] = "get"
  /\ \E e \in Errs :
       /\ last_err' = [q \in Reqs |-> e]
       /\ errs' = [errs EXCEPT ![r] = Append(@, e)]
  /\ gets' = [gets EXCEPT ![r] = @ + 1]
  /\ total' = [total EXCEPT ![r] = @ + 1]
  /\ pc' = [pc EXCEPT ![r] = "sleep"]
  /\ UNCHANGED <<cfg, calls, rss_url, parses, feed, idx, frame, articles,
                 response, i, sleeps, extr>>

\* requests.get raises: the error is kept, lines 31-32.
AttemptFail(r) ==
  /\ pc[r] = "get"
  /\ \E e \in Errs :
       /\ last_err' = [last_err EXCEPT ![r] = e]
       /\ errs' = [errs EXCEPT ![r] = Append(@, e)]
  /\ gets' = [gets EXCEPT ![r] = @ + 1]
  /\ total' = [total EXCEPT ![r] = @ + 1]
  /\ pc' = [pc EXCEPT ![r] = "sleep"]
  /\ UNCHANGED <<cfg, calls, rss_url, parses, feed, idx, frame, articles,
                 response, i, sleeps, extr>>

\* time.sleep(backoff * (2 ** i)), line 33, then the next index or the end
\* of the for loop.
Sleep(r) ==
  /\ pc[r] = "sleep"
  /\ sleeps' = [sleeps EXCEPT ![r] = Append(@, Delay(i[r]))]
  /\ IF MoreAttempts(i[r])
     THEN /\ i' = [i EXCEPT ![r] = @ + 1]
          /\ pc' = [pc EXCEPT ![r] = "get"]
     ELSE /\ pc' = [pc EXCEPT ![r] = "raise"]
          /\ UNCHANGED i
  /\ UNCHANGED <<cfg, count, rss_url, parses, feed, idx, frame, articles,
                 gets, response, last_err, errs, extr>>

\* raise last_err, line 34.
Raise(r) ==
  /\ pc[r] = "raise"
  /\ exc' = [exc EXCEPT ![r] = last_err[r]]
  /\ pc' = [pc EXCEPT ![r] = "except"]
  /\ UNCHANGED <<cfg, count, rss_url, parses, feed, idx, frame, articles,
                 gets, response, http, res, flat>>

(***************************************************************************)
(* extract_text_from_link (lines 43-59).                                   *)
(***************************************************************************)
\* AcceptsHtml testing only that a type is declared.
AcceptsHtml_any(ctype) == ctype # <<>>

\* "text/html" in ctype
AcceptsHtml(ctype) == \E k \in DOMAIN ctype : ctype[k] = "text/html"

\* soup(["script", "style", "noscript"]): the elements decomposed
HiddenTags == {"script", "style", "noscript"}

RECURSIVE Join(_)
Join(strings) ==
  IF strings = <<>> THEN <<>>
  ELSE IF Len(strings) = 1 THEN strings[1]
  ELSE strings[1] \o <<" ">> \o Join(Tail(strings))

\* soup.stripped_strings once the hidden elements are gone: each string
\* stripped, the empty ones dropped
StrippedStrings(page) ==
  LET kept == SelectSeq(page, LAMBDA n : n.tag \notin HiddenTags)
      stripped == [k \in DOMAIN kept |-> Strip(kept[k].s)]
  IN  SelectSeq(stripped, LAMBDA x : x # <<>>)

\* " ".join(s.strip() for s in soup.stripped_strings)
Flatten(page) ==
  LET strings == StrippedStrings(page)
  IN  Join([k \in DOMAIN strings |-> Strip(strings[k])])

\* ExtractCap without the slice.
ExtractCap_uncut(t) == t

\* text[:EXTRACT_CHAR_LIMIT]
ExtractCap(t) == PySlice(t, EXTRACT_CHAR_LIMIT)

\* Catches for a clause naming the parser's errors only.
Catches_parser(e) == e = "ParserError"

\* Catches for a clause naming the transport errors only.
Catches_transport(e) == e \in Errs

\* except Exception as e
Catches(e) == e \in Errs \cup {"ParserError"}

\* The frame of a call of http_get that has returned or raised.
HttpGone(r) ==
  /\ i' = [i EXCEPT ![r] = 0]
  /\ last_err' = [last_err EXCEPT ![r] = NoErr]
  /\ errs' = [errs EXCEPT ![r] = <<>>]
  /\ sleeps' = [sleeps EXCEPT ![r] = <<>>]

\* The content-type guard, lines 48-50.
Gate(r) ==
  /\ pc[r] = "gate"
  /\ IF AcceptsHtml(res[r].ctype)
     THEN /\ pc' = [pc EXCEPT ![r] = "extract"]
          /\ UNCHANGED text
     ELSE /\ text' = [text EXCEPT ![r] = None]
          /\ pc' = [pc EXCEPT ![r] = "resolve"]
  /\ HttpGone(r)
  /\ UNCHANGED <<cfg, count, rss_url, parses, feed, idx, link, summary,
                 articles, gets, response, extr>>

\* The page is parsed and its text returned, lines 52-56; res.text is one
\* of pages.
ExtractFrom(r, pages) ==
  /\ pc[r] = "extract"
  /\ \E page \in pages :
       /\ flat' = [flat EXCEPT ![r] = Flatten(page)]
       /\ text' = [text EXCEPT ![r] = ExtractCap(Flatten(page))]
  /\ pc' = [pc EXCEPT ![r] = "resolve"]
  /\ UNCHANGED <<cfg, count, rss_url, parses, feed, idx, link, summary,
                 articles, gets, response, http, res, exc>>

Extract(r) == ExtractFrom(r, Pages)

\* Reading or parsing the body raises.
ExtractRaise(r) ==
  /\ pc[r] = "extract"
  /\ exc' = [exc EXCEPT ![r] = "ParserError"]
  /\ pc' = [pc EXCEPT ![r] = "except"]
  /\ UNCHANGED <<cfg, count, rss_url, parses, feed, idx, frame, articles,
                 gets, response, http, res, flat>>

\* The exception reaches the except clause, lines 57-59; one it does not
\* catch leaves get_feed and the request ends with a 500.
Except(r) ==
  /\ pc[r] = "except"
  /\ IF Catches(exc[r])
     THEN /\ text' = [text EXCEPT ![r] = None]
          /\ pc' = [pc EXCEPT ![r] = "resolve"]
          /\ UNCHANGED response
     ELSE /\ response' =
               [response EXCEPT ![r] =
                  [status |-> 500, error |-> "Internal Server Error"]]
          /\ pc' = [pc EXCEPT ![r] = "done"]
          /\ UNCHANGED text
  /\ HttpGone(r)
  /\ UNCHANGED <<cfg, count, rss_url, parses, feed, idx, link, summary,
                 articles, gets, extr>>

\* Resolve calling extract_text_from_link a second time when the first call
\* returned no text.
Resolve_refetch(r) ==
  /\ pc[r] = "resolve"
  /\ IF (text[r] = None \/ text[r] = <<>>) /\ calls[r] < 2
     THEN /\ calls' = [calls EXCEPT ![r] = @ + 1]
          /\ pc' = [pc EXCEPT ![r] = "get"]
          /\ res' = [res EXCEPT ![r] = NoRes]
          /\ flat' = [flat EXCEPT ![r] = None]
          /\ exc' = [exc EXCEPT ![r] = NoErr]
          /\ UNCHANGED summary
     ELSE /\ summary' = [summary EXCEPT ![r] = ResolveSummary(text[r])]
          /\ pc' = [pc EXCEPT ![r] = "append"]
          /\ UNCHANGED <<calls, extr>>
  /\ UNCHANGED <<cfg, total, rss_url, parses, feed, idx, link, text, articles,
                 gets, response, http>>

\* get_feed, line 84: the summary from what the extraction returned.
Resolve(r) ==
  /\ pc[r] = "resolve"
  /\ summary' = [summary EXCEPT ![r] = ResolveSummary(text[r])]
  /\ pc' = [pc EXCEPT ![r] = "append"]
  /\ UNCHANGED <<cfg, count, rss_url, parses, feed, idx, link, text,
                 articles, gets, response, http, extr>>

(***************************************************************************)
(* Specifications.                                                         *)
(***************************************************************************)
Step(r) ==
  \/ Validate(r)
  \/ ParseFeed(r)
  \/ LoopEntry(r)
  \/ AttemptOk(r)
  \/ AttemptFail(r)
  \/ Sleep(r)
  \/ Raise(r)
  \/ Gate(r)
  \/ Extract(r)
  \/ ExtractRaise(r)
  \/ Except(r)
  \/ Resolve(r)
  \/ AppendArticle(r)
  \/ Respond(r)

\* One request, handled alone.
Next == Step(1)

Spec == Init /\ [][Next]_vars

\* Two requests handled at once (two worker threads), in any interleaving
\* of their steps, under one setting and with few feeds and pages.
TwoUrlArgs == { <<>>, <<"https://h/feed">> }

TwoFeeds ==
  { f \in Feeds :
      /\ Len(f) <= 2
      /\ \A k \in DOMAIN f : "title" \in DOMAIN f[k]
      /\ Len(f) >= 1 => f[Len(f)]["title"] = "C"
      /\ Len(f) = 2 => f[1]["title"] = "A" }

TwoPages == { p \in Pages : Len(p) <= 1 }

StepTwo(r) ==
  \/ ValidateFrom(r, TwoUrlArgs)
  \/ ParseFeedFrom(r, TwoFeeds)
  \/ LoopEntry(r)
  \/ AttemptOk(r)
  \/ AttemptFail(r)
  \/ Sleep(r)
  \/ Raise(r)
  \/ Gate(r)
  \/ ExtractFrom(r, TwoPages)
  \/ ExtractRaise(r)
  \/ Except(r)
  \/ Resolve(r)
  \/ AppendArticle(r)
  \/ Respond(r)

InitTwo ==
  /\ Init
  /\ MAX_ARTICLES = 2
  /\ EXTRACT_CHAR_LIMIT = 2
  /\ SUMMARY_CHAR_LIMIT = 1

NextTwo == \E r \in Reqs : StepTwo(r)

SpecTwo == InitTwo /\ [][NextTwo]_vars

(***************************************************************************)
(* Properties.                                                             *)
(***************************************************************************)
IsPrefix(a, b) == Len(a) <= Len(b) /\ SubSeq(b, 1, Len(a)) = a

HasText(e, k) == k \in DOMAIN e /\ e[k] # <<>>
NoInline(e) == ~HasText(e, "summary") /\ ~HasText(e, "description")
HasLink(e) == "link" \in DOMAIN e /\ e["link"] # ""
IsHtml(ctype) == "text/html" \in { ctype[k] : k \in DOMAIN ctype }

\* The article of the current entry has been appended.
Appended(r) == idx[r] >= 1 /\ Len(articles[r]) = idx[r]

\* C1: the summary of every article appended by get_feed is non-empty.
C1_SummaryNeverEmpty ==
  \A r \in Reqs : \A k \in DOMAIN articles[r] :
    articles[r][k].summary # <<>>

\* C2: an entry with a non-empty inline summary (or, that being empty, a
\* non-empty description) gets exactly that text as its summary, whatever
\* its length, and no GET is made for it, link or no link.
C2_InlineVerbatimNoFetch ==
  \A r \in Reqs :
    /\ \A k \in DOMAIN articles[r] :
         LET e == feed[r][k]
             a == articles[r][k]
         IN  /\ HasText(e, "summary") => a.summary = e["summary"]
             /\ ~HasText(e, "summary") /\ HasText(e, "description")
                  => a.summary = e["description"]
    /\ (idx[r] >= 1 /\ pc[r] # "done" /\ ~NoInline(feed[r][idx[r]]))
         => gets[r] = 0 /\ res[r] = NoRes /\ text[r] = None

C2_Witness ==
  /\ Appended(1)
  /\ pc[1] = "loop"
  /\ HasLink(feed[1][idx[1]])
  /\ articles[1][idx[1]].summary = <<"a", "b", "c">>
  /\ SUMMARY_CHAR_LIMIT < 3
  /\ gets[1] = 0

\* C3: an entry with no inline summary and no link gets the summary
\* "No summary available."
C3_NoLinkFallback ==
  \A r \in Reqs : \A k \in DOMAIN articles[r] :
    (NoInline(feed[r][k]) /\ ~HasLink(feed[r][k]))
      => articles[r][k].summary = Fallback

\* C4: when the fetch for an entry returns a response whose Content-Type
\* does not contain "text/html" (the header missing included), the parsing
\* and joining of the body are never reached and the entry's summary is
\* "No summary available."
C4_NonHtmlFallback ==
  \A r \in Reqs :
    /\ pc[r] = "extract" => IsHtml(res[r].ctype)
    /\ (res[r] # NoRes /\ ~IsHtml(res[r].ctype))
         => /\ flat[r] = None
            /\ text[r] = None
            /\ pc[r] \in {"gate", "resolve", "append", "loop"}
            /\ pc[r] \in {"append", "loop"} => summary[r] = Fallback
            /\ Appended(r) => articles[r][idx[r]].summary = Fallback

C4_Witness ==
  /\ Appended(1)
  /\ res[1].ctype = <<"application/json">>
  /\ articles[1][idx[1]].summary = Fallback
  /\ articles[1][idx[1]].link = "u"

\* C5: when the fetch for an entry returns HTML with non-empty text, the
\* extracted text is the flattened text cut to EXTRACT_CHAR_LIMIT characters
\* and the summary is the extracted text cut to SUMMARY_CHAR_LIMIT
\* characters, whichever limit is the larger.
C5_SummaryPrefixOfCappedText ==
  \A r \in Reqs :
    /\ flat[r] # None
         => /\ IsHtml(res[r].ctype)
            /\ IsPrefix(text[r], flat[r])
            /\ Len(text[r]) = Min(Len(flat[r]), EXTRACT_CHAR_LIMIT)
    /\ (flat[r] # None /\ text[r] # <<>> /\ Appended(r))
         => LET a == articles[r][idx[r]]
            IN  /\ IsPrefix(a.summary, text[r])
                /\ Len(a.summary) = Min(Len(text[r]), SUMMARY_CHAR_LIMIT)
                /\ Len(a.summary) <= SUMMARY_CHAR_LIMIT

C5_Witness ==
  /\ Appended(1)
  /\ flat[1] # None
  /\ Len(flat[1]) > EXTRACT_CHAR_LIMIT
  /\ EXTRACT_CHAR_LIMIT > SUMMARY_CHAR_LIMIT
  /\ articles[1][idx[1]].summary = SubSeq(flat[1], 1, SUMMARY_CHAR_LIMIT)

\* C6: get_feed returns at most MAX_ARTICLES articles, and the i-th article
\* is built from the i-th entry of the feed: on a 200 response the list is
\* the first min(n, MAX_ARTICLES) entries in their order.
C6_FirstEntriesInOrder ==
  \A r \in Reqs :
    /\ Len(articles[r]) <= MAX_ARTICLES
    /\ Len(articles[r]) <= Len(feed[r])
    /\ \A k \in DOMAIN articles[r] :
         LET e == feed[r][k]
             a == articles[r][k]
         IN  /\ a.title = (IF "title" \in DOMAIN e THEN e["title"] ELSE "Untitled")
             /\ a.link = (IF "link" \in DOMAIN e THEN e["link"] ELSE "")
             /\ HasText(e, "summary") => a.summary = e["summary"]
    /\ response[r].status = 200
         => Len(articles[r]) = Min(Len(feed[r]), MAX_ARTICLES)

C6_Witness ==
  /\ response[1].status = 200
  /\ MAX_ARTICLES = 1
  /\ Len(feed[1]) = 2
  /\ Len(articles[1]) = 1
  /\ articles[1][1].title = "C"
  /\ Get(feed[1][2], "title", "Untitled") = "A"

\* The call of http_get for the current entry has just raised.
HttpRaised(r) == pc[r] = "except" /\ errs[r] # <<>>

\* C7: when every attempt of http_get raises, it makes exactly retries + 1
\* attempts, the delays between consecutive attempts are backoff * 2^i and so
\* never decrease, and it raises the error of the last attempt; it returns a
\* response only from an attempt that did not raise.
C7_ExactAttemptsLastError ==
  \A r \in Reqs :
    /\ Len(errs[r]) <= retries + 1
    /\ pc[r] = "gate" => Len(errs[r]) <= retries /\ gets[r] = Len(errs[r]) + 1
    /\ \A k \in DOMAIN sleeps[r] :
         /\ sleeps[r][k] = backoff * (2 ^ (k - 1))
         /\ k > 1 => sleeps[r][k - 1] <= sleeps[r][k]
    /\ pc[r] = "get" => Len(sleeps[r]) = Len(errs[r]) /\ i[r] = Len(errs[r])
    /\ pc[r] \in {"raise", "except"} /\ errs[r] # <<>>
         => /\ Len(errs[r]) = retries + 1
            /\ gets[r] = retries + 1
            /\ res[r] = NoRes
    /\ HttpRaised(r) => exc[r] = errs[r][Len(errs[r])]

C7_Witness ==
  /\ HttpRaised(1)
  /\ errs[1] = <<"Timeout", "Timeout", "ConnectionError">>
  /\ exc[1] = "ConnectionError"
  /\ gets[1] = 3

\* C8: once the url is accepted and the feed has an entry, no outcome of an
\* entry's extraction (all attempts failing, a non-HTML response, an error
\* while parsing, no text) ends the request: it is never answered 500, a
\* handler that has not answered can always take a step, and it answers 200
\* with an article for each of the first min(n, MAX_ARTICLES) entries.
C8_NoErrorEscapes ==
  \A r \in Reqs :
    /\ response[r].status # 500
    /\ pc[r] \notin {"idle", "done"} => ENABLED Step(r)
    /\ (pc[r] = "done" /\ feed[r] # <<>>)
         => /\ response[r].status = 200
            /\ Len(articles[r]) = Min(Len(feed[r]), MAX_ARTICLES)
    /\ exc[r] # NoErr => pc[r] \in {"except", "resolve", "append", "loop"}
    /\ (exc[r] # NoErr /\ Appended(r))
         => articles[r][idx[r]].summary = Fallback

C8_Witness ==
  /\ response[1].status = 200
  /\ Len(articles[1]) = 2
  /\ articles[1][1].link = "u"
  /\ articles[1][1].summary = Fallback
  /\ articles[1][2].summary = <<"d">>

\* C9: a url that is absent or blank is answered 400 "Missing URL
\* parameter"; otherwise one whose scheme is not http or https or whose host
\* is empty is answered 400 "Invalid URL"; otherwise a feed without entries
\* is answered 400 "Failed to parse feed".  In the three cases no entry is
\* read and no GET is made, and in the first two the feed is not parsed.
C9_InputErrorsInOrder ==
  \A r \in Reqs :
    LET u == urlparse(rss_url[r])
        valid == u.scheme \in {"http", "https"} /\ u.netloc # ""
    IN  /\ pc[r] = "parse" => rss_url[r] # <<>> /\ valid
        /\ parses[r] > 0 => pc[r] \in {"loop", "get", "sleep", "raise", "gate",
                                        "extract", "except", "resolve",
                                        "append", "done"}
        /\ (pc[r] = "done" /\ parses[r] = 0)
             => /\ response[r].status = 400
                /\ ~(rss_url[r] # <<>> /\ valid)
                /\ response[r].error =
                     (IF rss_url[r] = <<>> THEN "Missing URL parameter"
                      ELSE "Invalid URL")
        /\ (parses[r] > 0 /\ feed[r] = <<>>)
             => /\ pc[r] = "done"
                /\ response[r] = [status |-> 400, error |-> "Failed to parse feed"]
        /\ response[r].status = 400
             => /\ pc[r] = "done"
                /\ parses[r] = 0 \/ feed[r] = <<>>
                /\ idx[r] = 0 /\ articles[r] = <<>>
                /\ gets[r] = 0 /\ res[r] = NoRes /\ errs[r] = <<>>

C9_Witness ==
  /\ pc[1] = "done"
  /\ rss_url[1] = <<"http:///feed">>
  /\ response[1] = [status |-> 400, error |-> "Invalid URL"]
  /\ parses[1] = 0

\* C10, as the specification states it: every article's summary is at most
\* SUMMARY_CHAR_LIMIT characters long, the inline ones included.
C10_AllSummariesCapped ==
  \A r \in Reqs : \A k \in DOMAIN articles[r] :
    Len(articles[r][k].summary) <= SUMMARY_CHAR_LIMIT

\* C10, amended: a summary cut from the text of the fetched page is at most
\* SUMMARY_CHAR_LIMIT characters long; an inline summary or description and
\* the fallback literal are returned whole.
C10_ExtractedSummariesCapped ==
  \A r \in Reqs : \A k \in DOMAIN articles[r] :
    LET e == feed[r][k]
        a == articles[r][k]
    IN  (NoInline(e) /\ HasLink(e) /\ a.summary # Fallback)
          => Len(a.summary) <= SUMMARY_CHAR_LIMIT

C10_Witness ==
  /\ Appended(1)
  /\ NoInline(feed[1][idx[1]])
  /\ Len(text[1]) > SUMMARY_CHAR_LIMIT
  /\ text[1] # None
  /\ Len(articles[1][idx[1]].summary) = SUMMARY_CHAR_LIMIT

\* The call of http_get for the current entry has just ended: it has
\* returned a response, or is at its raise statement or has raised.
HttpEnded(r) ==
  \/ pc[r] = "gate"
  \/ pc[r] = "raise"
  \/ HttpRaised(r)

\* C11: http_get waits only between attempts: a call that made k attempts
\* has waited k - 1 times, so there is no wait after the last failed attempt.
C11_WaitsOnlyBetweenAttempts ==
  \A r \in Reqs : HttpEnded(r) => Len(sleeps[r]) = gets[r] - 1

\* Steps of the retry loop of http_get left before it must end.
HttpBudget(r) == 2 * (retries + 1) - (gets[r] + Len(sleeps[r]))

\* C12: a call of http_get ends after at most retries + 1 attempts: every
\* step of its loop uses up a bounded budget; the first attempt that does not
\* raise returns its response at once, with no further attempt and no
\* further wait; the call fails only after attempt retries + 1.
C12_HttpGetTerminates ==
  [][\A r \in Reqs :
       /\ gets'[r] <= retries + 1
       /\ pc[r] \in {"get", "sleep"}
            => /\ pc'[r] \in {"get", "sleep", "gate", "raise"}
               /\ pc'[r] # pc[r] => HttpBudget(r)' < HttpBudget(r)
               /\ HttpBudget(r)' >= 0
       /\ (pc[r] = "get" /\ pc'[r] = "gate")
            => /\ res'[r] # NoRes
               /\ gets'[r] = gets[r] + 1
               /\ gets'[r] = Len(errs[r]) + 1
               /\ sleeps'[r] = sleeps[r]
       /\ pc[r] = "gate" => gets'[r] = gets[r] /\ pc'[r] \notin {"get", "sleep"}
       /\ pc'[r] = "raise" => gets'[r] = retries + 1 /\ res'[r] = NoRes
    ]_vars

C12_Witness ==
  /\ pc[1] = "gate"
  /\ gets[1] = 2
  /\ errs[1] = <<"Timeout">>
  /\ Len(sleeps[1]) = 1
  /\ res[1] # NoRes

\* C13: when all retries + 1 attempts of the fetch for an entry fail, the
\* transport error http_get raises is caught inside extract_text_from_link:
\* the request is not answered with an error and the entry's summary is
\* "No summary available."
C13_TransportErrorRecovered ==
  \A r \in Reqs :
    exc[r] \in Errs
      => /\ gets[r] = retries + 1
         /\ res[r] = NoRes /\ flat[r] = None
         /\ pc[r] \in {"except", "resolve", "append", "loop"}
         /\ response[r] = NoResponse
         /\ pc[r] # "except" => text[r] = None
         /\ pc[r] \in {"append", "loop"} => summary[r] = Fallback
         /\ Appended(r)
              => /\ articles[r][idx[r]].summary = Fallback
                 /\ NoInline(feed[r][idx[r]]) /\ HasLink(feed[r][idx[r]])

C13_Witness ==
  /\ Appended(1)
  /\ exc[1] = "Timeout"
  /\ gets[1] = 3
  /\ articles[1][idx[1]].summary = Fallback

\* C14: when the fetch for an entry returns HTML and the extraction yields
\* no text (the joined string is empty), the entry's summary is
\* "No summary available.", never the empty string.
C14_EmptyExtractionFallback ==
  \A r \in Reqs :
    flat[r] = <<>>
      => /\ IsHtml(res[r].ctype)
         /\ text[r] = <<>>
         /\ pc[r] \in {"resolve", "append", "loop"}
         /\ pc[r] \in {"append", "loop"} => summary[r] = Fallback
         /\ Appended(r)
              => /\ articles[r][idx[r]].summary = Fallback
                 /\ articles[r][idx[r]].summary # <<>>

C14_Witness ==
  /\ Appended(1)
  /\ flat[1] = <<>>
  /\ IsHtml(res[1].ctype)
  /\ articles[1][idx[1]].summary = Fallback

\* An entry's resolution is under way or just over.
InEntry(r) == idx[r] >= 1 /\ pc[r] # "done"

\* C15: the fetcher is called at most once for an entry, and once exactly
\* when the entry has no inline text and a non-empty link; so an entry costs
\* at most retries + 1 GETs and a request at most
\* min(n, MAX_ARTICLES) * (retries + 1); after a failed fetch, a rejected
\* content type or an empty extraction the fetcher is not called again.
C15_OneFetchPerEntry ==
  \A r \in Reqs :
    /\ calls[r] <= 1
    /\ InEntry(r)
         => (calls[r] = 1
               <=> NoInline(feed[r][idx[r]]) /\ HasLink(feed[r][idx[r]]))
    /\ gets[r] <= calls[r] * (retries + 1)
    /\ total[r] <= idx[r] * (retries + 1)
    /\ total[r] <= Min(Len(feed[r]), MAX_ARTICLES) * (retries + 1)
    /\ pc[r] \in {"resolve", "append"} /\ calls[r] = 1
         => gets[r] >= 1 /\ (res[r] = NoRes <=> exc[r] \in Errs)

C15_Witness ==
  /\ response[1].status = 200
  /\ Len(articles[1]) = 2
  /\ total[1] = 2 * (retries + 1)
  /\ articles[1][2].summary = Fallback

\* The fetch of the current entry is under way.
Fetching(r) ==
  pc[r] \in {"get", "sleep", "raise", "gate", "extract", "except", "resolve"}

\* C16: the entries of a request are processed one after the other: while
\* the fetch for entry k is under way the articles of the k - 1 entries
\* before it are in the list and no other fetch of the request is; the next
\* entry is taken only once the article of the current one is appended.
C16_EntriesSequential ==
  \A r \in Reqs :
    /\ Fetching(r) => Len(articles[r]) = idx[r] - 1 /\ calls[r] = 1
    /\ pc[r] = "append" => Len(articles[r]) = idx[r] - 1
    /\ pc[r] \in {"loop", "done"} => Len(articles[r]) = idx[r]
    /\ Len(articles[r]) \in {idx[r] - 1, idx[r]}

C16_Witness ==
  /\ pc[1] = "sleep"
  /\ idx[1] = 2
  /\ Len(articles[1]) = 1
  /\ articles[1][1].title = "C"
  /\ articles[1][1].summary # Fallback

\* C18: a non-empty "summary" is used whatever "description" holds;
\* "description" is used only when "summary" is empty or absent; the fetcher
\* is called only when both are; the two are never joined.
C18_SummaryBeforeDescription ==
  \A r \in Reqs :
    /\ \A k \in DOMAIN articles[r] :
         LET e == feed[r][k]
             a == articles[r][k]
             s == IF "summary" \in DOMAIN e THEN e["summary"] ELSE <<>>
             d == IF "description" \in DOMAIN e THEN e["description"] ELSE <<>>
         IN  /\ s # <<>> => a.summary = s
             /\ (s = <<>> /\ d # <<>>) => a.summary = d
             /\ (s # <<>> /\ d # <<>>)
                  => a.summary \notin {d, s \o d, d \o s, s \o <<" ">> \o d}
    /\ (InEntry(r) /\ (calls[r] > 0 \/ gets[r] > 0))
         => NoInline(feed[r][idx[r]])

C18_Witness ==
  /\ Appended(1)
  /\ HasText(feed[1][idx[1]], "summary")
  /\ HasText(feed[1][idx[1]], "description")
  /\ articles[1][idx[1]].summary = <<"a", "b", "c">>

\* C19: a 200 response carries exactly min(n, MAX_ARTICLES) articles, n the
\* number of entries of the feed; n is never 0 there, a feed without entries
\* being answered 400, so with MAX_ARTICLES >= 1 the list is not empty.
C19_OkHasMinArticles ==
  \A r \in Reqs :
    /\ response[r].status = 200
         => /\ pc[r] = "done"
            /\ Len(feed[r]) >= 1
            /\ Len(articles[r]) = Min(Len(feed[r]), MAX_ARTICLES)
            /\ MAX_ARTICLES >= 1 => articles[r] # <<>>
    /\ (parses[r] > 0 /\ Len(feed[r]) = 0) => response[r].status = 400

C19_Witness ==
  /\ response[1].status = 200
  /\ MAX_ARTICLES = 2
  /\ Len(feed[1]) = 1
  /\ Len(articles[1]) = 1

\* Everything one request holds: the locals of get_feed, of
\* extract_text_from_link and of http_get, its response and its counters.
ReqState(q) ==
  <<pc[q], rss_url[q], parses[q], feed[q], idx[q], link[q], summary[q],
    text[q], articles[q], gets[q], response[q], i[q], last_err[q], errs[q],
    sleeps[q], res[q], flat[q], exc[q], calls[q], total[q]>>

\* The article of entry k of request r is built from entry k of r's feed.
OwnEntry(r, k) ==
  LET e == feed[r][k]
      a == articles[r][k]
  IN  /\ a.title = Get(e, "title", "Untitled")
      /\ a.link = Get(e, "link", "")
      /\ HasText(e, "summary") => a.summary = e["summary"]
      /\ (~HasText(e, "summary") /\ HasText(e, "description"))
           => a.summary = e["description"]

\* C17: two requests handled at once, in any interleaving, do not affect
\* each other. Every step is a step of one request and leaves everything
\* the other request holds, and the settings, as they were; a request's
\* list holds one article per entry of its own feed, in order, built from
\* that entry and, where the page was fetched, from its own fetch outcome;
\* the error http_get raises is the one of its own last attempt.
C17_RequestsIndependent ==
  /\ [](\A r \in Reqs :
         /\ Len(articles[r]) <= Len(feed[r])
         /\ \A k \in DOMAIN articles[r] : OwnEntry(r, k)
         /\ (Appended(r) /\ pc[r] # "done" /\ NoInline(feed[r][idx[r]])
               /\ HasLink(feed[r][idx[r]]))
              => articles[r][idx[r]].summary
                   = IF text[r] \in {None, <<>>}
                       THEN Fallback
                       ELSE SubSeq(text[r], 1,
                                   Min(SUMMARY_CHAR_LIMIT, Len(text[r])))
         /\ errs[r] # <<>> => last_err[r] = errs[r][Len(errs[r])]
         /\ errs[r] = <<>> => last_err[r] = NoErr
         /\ response[r].status = 200
              => Len(articles[r]) = Min(Len(feed[r]), MAX_ARTICLES))
  /\ [][/\ cfg' = cfg
         /\ \E r \in Reqs :
              \A q \in Reqs \ {r} : ReqState(q)' = ReqState(q)]_vars

\* Request 1 is waiting between two attempts while request 2, on another
\* feed, has one article and has just had the page of its second entry
\* after a failure of another kind.
C17_Witness ==
  /\ pc[1] = "sleep"
  /\ errs[1] = <<"Timeout">>
  /\ pc[2] = "gate"
  /\ errs[2] = <<"ConnectionError">>
  /\ idx[2] = 2
  /\ Len(articles[2]) = 1
  /\ feed[1] # feed[2]

====
